---------------------------- MODULE Spec2Model ----------------------------
(***************************************************************************)
(* A model of the strided tensor (tensor/src/tensor.rs, split.rs) and of   *)
(* the llama CPU facade (models/llama/cpu/src/lib.rs) of InfiniLM.         *)
(*                                                                         *)
(* A tensor is a record [layout, shape, pattern]; pattern holds the        *)
(* strides followed by the element offset.  The physical buffer is kept    *)
(* beside the tensor, as a byte length or as a sequence of bytes.          *)
(***************************************************************************)
EXTENDS Integers, Sequences, FiniteSets, TLC

VARIABLES
    \* ---- layout queries on one tensor (contiguous_len, as_slice) ----
    lt,         \* the tensor under inspection
    lphys,      \* length in bytes of its physical buffer
    lclen,      \* result of the contiguous_len call, -1 before the call
    lcontig,    \* result of the is_contiguous call
    lslice,     \* outcome of as_slice / as_mut_slice
    \* ---- split: a source tensor and the views of its last split ----
    scur,       \* the source tensor
    sphys,      \* length in bytes of the physical buffer all views share
    sviews,     \* the views returned by the last split of scur
    scall,      \* the last split call: [state, axis, segments]
    sdepth,     \* how many times a view was taken as the next source
    \* ---- reform_to: one call, its workers interleaved ----
    rsrc,       \* the source tensor (self)
    rdst,       \* the destination tensor
    rsrcBuf,    \* the bytes of the source's physical buffer
    rdstBuf,    \* the bytes of the destination's physical buffer
    rjunk,      \* the byte a read past the end of the source buffer finds
    rpc,        \* "init", "running", "done" or "panic"
    rprog,      \* per worker, the bytes it has copied so far
    \* ---- decode and sample of the llama CPU transformer ----
    dcfg,       \* the model's config: [d, nvoc]
    dmeta,      \* per query: [num_query, num_decode, args]
    dlogits,    \* what decode returned: [state, shape, data, rows, normed, headed]
    dtokens,    \* what sample returned: [state, tokens]
    \* ---- KV caches: new_cache, duplicate_cache, forward ----
    cheap,      \* the allocated buffers, by id: a sequence of byte sequences
    cA,         \* the first cache: [t, buf]
    cB,         \* the duplicate, once made: [t, buf]
    cpos,       \* the callers' position counters: [A, B]
    cdup,       \* the duplication: [state, pos, snap, srcWritten]
    fpc,        \* forward: "idle", "layer" or "PositionOverflow"
    fqueries,   \* the queries of the step in progress
    flayer,     \* the next layer of the step in progress
    fsnap,      \* the buffers as they were when the step began
    \* ---- ConfigJson::load and data_layout (mixtral config.rs) ----
    jfile,      \* config.json in the model directory: [kind, present, torch_dtype]
    jres,       \* what load returned: [state, config]
    jlayout,    \* what data_layout returned: "none", a layout, or "panic"
    \* ---- tokenizer: decode_with_ascii ----
    tpiece,     \* the vocabulary piece, a sequence of bytes
    tout,       \* what decode_with_ascii returned: [state, str]
    \* ---- mutable access through the views of one split ----
    asrc,       \* the tensor that is split
    abuf,       \* the bytes of the buffer its views share
    aviews,     \* the views of the split
    awrite,     \* the write made: [state, view, via, pos]
    asnap       \* the buffer before the write

layoutVars == <<lt, lphys, lclen, lcontig, lslice>>

splitVars == <<scur, sphys, sviews, scall, sdepth>>

reformVars == <<rsrc, rdst, rsrcBuf, rdstBuf, rjunk, rpc, rprog>>

decodeVars == <<dcfg, dmeta, dlogits, dtokens>>

vars == <<lt, lphys, lclen, lcontig, lslice, scur, sphys, sviews, scall, sdepth,
          rsrc, rdst, rsrcBuf, rdstBuf, rjunk, rpc, rprog,
          dcfg, dmeta, dlogits, dtokens,
          cheap, cA, cB, cpos, cdup, fpc, fqueries, flayer, fsnap,
          jfile, jres, jlayout, tpiece, tout,
          asrc, abuf, aviews, awrite, asnap>>

aliasVars == <<asrc, abuf, aviews, awrite, asnap>>

loadVars == <<jfile, jres, jlayout>>

tokVars == <<tpiece, tout>>

cacheVars == <<cheap, cA, cB, cpos, cdup, fpc, fqueries, flayer, fsnap>>

(***************************************************************************)
(* Bounds of the model.                                                    *)
(***************************************************************************)
MaxRank == 2        \* ranks 0..MaxRank of the inspected tensors
MaxDim == 2         \* dimensions 0..MaxDim
MaxStride == 2      \* strides 0..MaxStride
MaxOffset == 1      \* element offsets 0..MaxOffset
MaxSegs == 2        \* split into at most MaxSegs segments
MaxDepth == 1       \* splits nested at most MaxDepth deep
MaxSize == 4        \* reform_to copies tensors of at most MaxSize elements
MaxQueries == 2     \* at most MaxQueries queries in a decode step
MaxQueryLen == 2    \* a query contributes 0..MaxQueryLen rows to a step
MaxHidden == 2      \* hidden size d in 1..MaxHidden
MaxVoc == 2         \* vocabulary size nvoc in 1..MaxVoc
MaxMissing == 1     \* config.json lacks at most MaxMissing fields
MaxPieceLen == 7    \* a vocabulary piece has at most MaxPieceLen bytes
CacheLayers == 1    \* nlayers of the model of the cache specification
CacheHeads == 2     \* nkvh
CacheSeq == 2       \* max_seq_len
CacheDh == 1        \* dh

(***************************************************************************)
(* Helpers on sequences.                                                   *)
(***************************************************************************)
SeqsUpTo(S, n) == UNION {[1..k -> S] : k \in 0..n}

RECURSIVE Prod(_)
Prod(s) == IF s = <<>> THEN 1 ELSE Head(s) * Prod(Tail(s))

RECURSIVE Sum(_)
Sum(s) == IF s = <<>> THEN 0 ELSE Head(s) + Sum(Tail(s))

Min(a, b) == IF a <= b THEN a ELSE b

(***************************************************************************)
(* DigitLayout: the element types used by the repository and their widths. *)
(***************************************************************************)
Layouts == {"U8", "F16"}

nbytes(layout) == CASE layout = "U8" -> 1
                    [] layout = "F16" -> 2
                    [] layout = "F32" -> 4

(***************************************************************************)
(* Tensor accessors.                                                       *)
(***************************************************************************)
rank(t) == Len(t.shape)

strides(t) == SubSeq(t.pattern, 1, rank(t))

offset(t) == t.pattern[rank(t) + 1]

bytes_offset(t) == offset(t) * nbytes(t.layout)

size(t) == Prod(t.shape)

bytes_size(t) == size(t) * nbytes(t.layout)

\* Pattern::from_shape(shape, 0): packed row-major strides, then the offset.
RECURSIVE PackedStrides(_)
PackedStrides(shape) ==
    IF shape = <<>> THEN <<>>
    ELSE <<Prod(Tail(shape))>> \o PackedStrides(Tail(shape))

from_shape(shape, off) == PackedStrides(shape) \o <<off>>

new(layout, shape) ==
    [layout |-> layout, shape |-> shape, pattern |-> from_shape(shape, 0)]

\* alloc: the tensor of new, over a buffer of prod(shape) * nbytes bytes.
alloc(layout, shape) == new(layout, shape)

alloc_len(layout, shape) == Prod(shape) * nbytes(layout)

from_raw_parts(layout, shape, pattern) ==
    [layout |-> layout, shape |-> shape, pattern |-> pattern]

(***************************************************************************)
(* contiguous_len: scan the strides from the last dimension, keeping the   *)
(* running product mul of the dimensions passed; a dimension counts when   *)
(* its stride is mul or 0, and the scan stops at the first that does not.  *)
(***************************************************************************)
RECURSIVE contiguous_scan(_, _, _, _)
contiguous_scan(shape, strd, i, mul) ==
    IF i = 0 THEN 0
    ELSE IF strd[i] = mul \/ strd[i] = 0
         THEN 1 + contiguous_scan(shape, strd, i - 1, mul * shape[i])
         ELSE 0

\* mutant: the scan without the zero-stride case
RECURSIVE contiguous_scan_strict(_, _, _, _)
contiguous_scan_strict(shape, strd, i, mul) ==
    IF i = 0 THEN 0
    ELSE IF strd[i] = mul
         THEN 1 + contiguous_scan_strict(shape, strd, i - 1, mul * shape[i])
         ELSE 0

contiguous_len_strict(t) == contiguous_scan_strict(t.shape, strides(t), rank(t), 1)

contiguous_len(t) == contiguous_scan(t.shape, strides(t), rank(t), 1)

is_contiguous(t) == contiguous_len(t) = rank(t)

(***************************************************************************)
(* as_slice / as_mut_slice.  debug_assert!(is_contiguous) is compiled only *)
(* with debug assertions; the two range indexings panic when out of range. *)
(***************************************************************************)
NoSlice == [kind |-> "none", off |-> 0, len |-> 0, debug |-> FALSE]

slice_of(t, physLen, debug) ==
    LET off == bytes_offset(t)
        len == bytes_size(t)
    IN  IF debug /\ ~is_contiguous(t)
        THEN [kind |-> "panic", off |-> 0, len |-> 0, debug |-> debug]
        ELSE IF off < 0 \/ off > physLen \/ len > physLen - off
        THEN [kind |-> "panic", off |-> 0, len |-> 0, debug |-> debug]
        ELSE [kind |-> "slice", off |-> off, len |-> len, debug |-> debug]

as_slice(t, physLen, debug) == slice_of(t, physLen, debug)

as_mut_slice(t, physLen, debug) == slice_of(t, physLen, debug)

(***************************************************************************)
(* The value every group of variables holds in a specification that does   *)
(* not use it.                                                             *)
(***************************************************************************)
LayoutIdle ==
    /\ lt = from_raw_parts("U8", <<>>, <<0>>)
    /\ lphys = 0
    /\ lclen = -1
    /\ lcontig = FALSE
    /\ lslice = NoSlice

SplitIdle ==
    /\ scur = from_raw_parts("U8", <<>>, <<0>>)
    /\ sphys = 0
    /\ sviews = <<>>
    /\ scall = [state |-> "none", axis |-> 0, segments |-> <<>>]
    /\ sdepth = 0

ReformIdle ==
    /\ rsrc = from_raw_parts("U8", <<>>, <<0>>)
    /\ rdst = from_raw_parts("U8", <<>>, <<0>>)
    /\ rsrcBuf = <<>>
    /\ rdstBuf = <<>>
    /\ rjunk = 0
    /\ rpc = "idle"
    /\ rprog = <<>>

NoLogits == [state |-> "none", shape |-> <<>>, data |-> <<>>, rows |-> <<>>,
             normed |-> FALSE, headed |-> FALSE]

NoTokens == [state |-> "none", tokens |-> <<>>]

DecodeIdle ==
    /\ dcfg = [d |-> 0, nvoc |-> 0]
    /\ dmeta = <<>>
    /\ dlogits = NoLogits
    /\ dtokens = NoTokens

NoCache == [t |-> from_raw_parts("U8", <<>>, <<0>>), buf |-> 0]

NoDup == [state |-> "none", pos |-> 0, snap |-> <<>>, srcWritten |-> FALSE]

CacheIdle ==
    /\ cheap = <<>>
    /\ cA = NoCache
    /\ cB = NoCache
    /\ cpos = [A |-> 0, B |-> 0]
    /\ cdup = NoDup
    /\ fpc = "off"
    /\ fqueries = <<>>
    /\ flayer = 0
    /\ fsnap = <<>>

NoConfig == [state |-> "none", config |-> <<>>]

LoadIdle ==
    /\ jfile = [kind |-> "off", present |-> {}, torch_dtype |-> ""]
    /\ jres = NoConfig
    /\ jlayout = "none"

NoStr == [state |-> "none", str |-> <<>>]

TokIdle ==
    /\ tpiece = <<>>
    /\ tout = NoStr

NoWrite == [state |-> "none", view |-> 0, via |-> "", pos |-> 0]

AliasIdle ==
    /\ asrc = from_raw_parts("U8", <<>>, <<0>>)
    /\ abuf = <<>>
    /\ aviews = <<>>
    /\ awrite = NoWrite
    /\ asnap = <<>>

(***************************************************************************)
(* split.rs: build returns, per segment, the view's shape and the affine   *)
(* matrix that maps the source pattern to the view's pattern; split        *)
(* multiplies each matrix with the source pattern.  axis is 0-based as in  *)
(* the source; sequences here are 1-based.                                 *)
(***************************************************************************)
\* Affine::from_fn(n + 1, n + 1, ..) of build, rows and columns 0-based
affine_of(n, axis, prefix) ==
    [r \in 0..n |-> [c \in 0..n |->
        IF r = c THEN 1
        ELSE IF r = n THEN (IF c = axis THEN prefix ELSE 0)
        ELSE 0]]

RECURSIVE build_scan(_, _, _, _)
build_scan(axis, segments, input, prefix) ==
    IF segments = <<>> THEN <<>>
    ELSE LET seg == Head(segments)
             shape == [i \in 1..Len(input) |-> IF i - 1 = axis THEN seg ELSE input[i]]
             affine == affine_of(Len(input), axis, prefix)
         IN  <<[shape |-> shape, affine |-> affine]>>
                \o build_scan(axis, Tail(segments), input, prefix + seg)

\* mutant: the prefix is never advanced
RECURSIVE build_scan_fixed(_, _, _, _)
build_scan_fixed(axis, segments, input, prefix) ==
    IF segments = <<>> THEN <<>>
    ELSE LET seg == Head(segments)
             shape == [i \in 1..Len(input) |-> IF i - 1 = axis THEN seg ELSE input[i]]
             affine == affine_of(Len(input), axis, prefix)
         IN  <<[shape |-> shape, affine |-> affine]>>
                \o build_scan_fixed(axis, Tail(segments), input, prefix)

build_fixed(axis, segments, input) == build_scan_fixed(axis, segments, input, 0)

build(axis, segments, input) == build_scan(axis, segments, input, 0)

\* the two assertions of build
build_asserts(axis, segments, input) ==
    /\ Len(input) > axis
    /\ input[axis + 1] >= Sum(segments)

RECURSIVE DotFrom(_, _, _)
DotFrom(a, b, i) == IF i > Len(a) THEN 0 ELSE a[i] * b[i] + DotFrom(a, b, i + 1)

Dot(a, b) == DotFrom(a, b, 1)

\* affine * pattern: the matrix times the pattern as a column vector
affine_mul(affine, pattern) ==
    LET n == Len(pattern) - 1
    IN  [r \in 1..(n + 1) |->
            Dot([c \in 1..(n + 1) |-> affine[r - 1][c - 1]], pattern)]

split(t, axis, segments) ==
    LET parts == build(axis, segments, t.shape)
    IN  [k \in 1..Len(parts) |->
            [layout |-> t.layout,
             shape |-> parts[k].shape,
             pattern |-> affine_mul(parts[k].affine, t.pattern)]]

(***************************************************************************)
(* Specification SpecSplit: a tensor from alloc (equally, from new over a   *)
(* buffer of that length), split, and views split again.                   *)
(***************************************************************************)
SplitShapes == SeqsUpTo(0..MaxDim, MaxRank)

SegmentLists == SeqsUpTo(0..MaxDim, MaxSegs)

SplitInit ==
    /\ LayoutIdle
    /\ ReformIdle
    /\ DecodeIdle
    /\ CacheIdle
    /\ LoadIdle
    /\ TokIdle
    /\ AliasIdle
    /\ \E l \in Layouts, sh \in SplitShapes :
        /\ scur = alloc(l, sh)
        /\ sphys = alloc_len(l, sh)
    /\ sviews = <<>>
    /\ scall = [state |-> "none", axis |-> 0, segments |-> <<>>]
    /\ sdepth = 0

Split ==
    /\ scall.state = "none"
    /\ \E axis \in 0..MaxRank, segments \in SegmentLists :
        /\ build_asserts(axis, segments, scur.shape)
        /\ sviews' = split(scur, axis, segments)
        /\ scall' = [state |-> "done", axis |-> axis, segments |-> segments]
    /\ UNCHANGED <<scur, sphys, sdepth>>

\* one of the assertions of build fails: the call panics and returns nothing
SplitPanic ==
    /\ scall.state = "none"
    /\ TRUE = (\E axis \in 0..MaxRank, segments \in SegmentLists :
                    ~build_asserts(axis, segments, scur.shape))
    /\ sviews' = <<>>
    /\ scall' = [state |-> "panic", axis |-> 0, segments |-> <<>>]
    /\ UNCHANGED <<scur, sphys, sdepth>>

\* a view leaves the returned queue and becomes the next source
TakeView ==
    /\ scall.state = "done"
    /\ sdepth < MaxDepth
    /\ \E k \in 1..Len(sviews) : scur' = sviews[k]
    /\ sviews' = <<>>
    /\ scall' = [state |-> "none", axis |-> 0, segments |-> <<>>]
    /\ sdepth' = sdepth + 1
    /\ UNCHANGED sphys

SplitNext ==
    /\ Split \/ SplitPanic \/ TakeView
    /\ UNCHANGED <<layoutVars, reformVars, decodeVars, cacheVars, loadVars, tokVars, aliasVars>>

SpecSplit == SplitInit /\ [][SplitNext]_vars

(***************************************************************************)
(* Claims on split.                                                        *)
(***************************************************************************)
PrefixSum(segments, k) == Sum(SubSeq(segments, 1, k))

\* every index tuple (0-based) of a shape
RECURSIVE Indices(_)
Indices(shape) ==
    IF shape = <<>> THEN {<<>>}
    ELSE {<<i>> \o rest : i \in 0..(Head(shape) - 1), rest \in Indices(Tail(shape))}

\* the element offset a tensor maps an index tuple to
ElementAt(t, idx) == Dot(strides(t), idx) + offset(t)

\* C1: split returns one view per segment, in order; view k has the source's
\* shape except shape[axis] = segments[k], the source's strides, and offset =
\* source offset + (segments[0] + ... + segments[k-1]) * stride[axis]; so view k
\* addresses exactly the source's elements whose axis index lies in
\* [prefix_k, prefix_k + segments[k]), and every axis index below the sum of the
\* segments belongs to exactly one view.
C1_Split ==
    scall.state = "done" =>
        LET ax == scall.axis + 1
            segs == scall.segments
        IN  /\ Len(sviews) = Len(segs)
            /\ \A k \in 1..Len(segs) :
                /\ sviews[k].layout = scur.layout
                /\ sviews[k].shape = [scur.shape EXCEPT ![ax] = segs[k]]
                /\ strides(sviews[k]) = strides(scur)
                /\ offset(sviews[k]) =
                        offset(scur) + PrefixSum(segs, k - 1) * strides(scur)[ax]
                /\ \A idx \in Indices(sviews[k].shape) :
                        ElementAt(sviews[k], idx) =
                            ElementAt(scur, [idx EXCEPT ![ax] = @ + PrefixSum(segs, k - 1)])
            /\ strides(scur)[ax] > 0 =>
                \A j \in 0..(Sum(segs) - 1) :
                    Cardinality({ki \in (1..Len(segs)) \X (0..MaxDim) :
                        /\ ki[2] < sviews[ki[1]].shape[ax]
                        /\ offset(sviews[ki[1]]) + ki[2] * strides(scur)[ax]
                                = offset(scur) + j * strides(scur)[ax]}) = 1

\* C1 witness: a split into two non-empty segments whose second view starts
\* past the first.
C1_Witness ==
    /\ scall.state = "done"
    /\ Len(scall.segments) = 2
    /\ scall.segments[1] > 0
    /\ scall.segments[2] > 0
    /\ rank(scur) = 2
    /\ offset(sviews[2]) > offset(scur)
    /\ size(sviews[2]) > 0

\* C3 (as stated): every tensor reached from alloc/new by splits satisfies
\* bytes_offset + bytes_size <= length of the physical buffer.
C3_Original ==
    \A t \in {scur} \cup {sviews[k] : k \in 1..Len(sviews)} :
        bytes_offset(t) + bytes_size(t) <= sphys

(***************************************************************************)
(* reform_to (tensor.rs).  The trailing min(contiguous_len) dimensions are *)
(* copied as one run of count bytes; one worker per index tuple of the     *)
(* remaining prefix copies its run from the source to the destination.     *)
(***************************************************************************)
\* Compatibility::between is other than None: same layout, same shape
Compatible(a, b) == a.layout = b.layout /\ a.shape = b.shape

reform_contiguous(src, dst) == Min(contiguous_len(src), contiguous_len(dst))

\* the iterated prefix and the contiguous tail of the shape
reform_iter(src, dst) == SubSeq(src.shape, 1, rank(src) - reform_contiguous(src, dst))

reform_tail(src, dst) ==
    SubSeq(src.shape, rank(src) - reform_contiguous(src, dst) + 1, rank(src))

\* idx_strides(iter): the number of index tuples of the prefix
reform_n(src, dst) == Prod(reform_iter(src, dst))

\* expand_indices(i, idx_strides, []): the i-th index tuple in row-major order
expand_indices(i, iter) ==
    [k \in 1..Len(iter) |-> (i \div Prod(SubSeq(iter, k + 1, Len(iter)))) % iter[k]]

\* mutant: the run counted in elements, not in bytes
reform_count_elems(src, dst) == Prod(reform_tail(src, dst))

reform_count(src, dst) == Prod(reform_tail(src, dst)) * nbytes(src.layout)

\* byte position, in its buffer, of the first byte worker i reads / writes
worker_base(t, iter, i) ==
    bytes_offset(t)
        + Dot(SubSeq(t.pattern, 1, Len(iter)), expand_indices(i, iter)) * nbytes(t.layout)

worker_src(src, dst, i) == worker_base(src, reform_iter(src, dst), i)

worker_dst(src, dst, i) == worker_base(dst, reform_iter(src, dst), i)

\* a read of byte position pos (0-based); past the end it finds junk
read_byte(buf, pos, junk) == IF pos < Len(buf) THEN buf[pos + 1] ELSE junk

\* a write of byte position pos; past the end it lands outside the buffer
write_byte(buf, pos, b) == IF pos < Len(buf) THEN [buf EXCEPT ![pos + 1] = b] ELSE buf

\* copy_nonoverlapping of one worker, bytes from..count-1, as one function
copy_run(srcBuf, spos, dstBuf, dpos, from, count, junk) ==
    [p \in 1..Len(dstBuf) |->
        IF dpos + from <= p - 1 /\ p - 1 < dpos + count
        THEN read_byte(srcBuf, spos + (p - 1 - dpos), junk)
        ELSE dstBuf[p]]

\* the workers i..n-1 run one after the other
RECURSIVE reform_from(_, _, _, _, _, _)
reform_from(src, srcBuf, dst, dstBuf, i, junk) ==
    IF i >= reform_n(src, dst) THEN dstBuf
    ELSE reform_from(src, srcBuf, dst,
                     copy_run(srcBuf, worker_src(src, dst, i), dstBuf,
                              worker_dst(src, dst, i), 0, reform_count(src, dst), junk),
                     i + 1, junk)

\* the destination buffer reform_to leaves when its workers run in index order
reform_to(src, srcBuf, dst, dstBuf, junk) == reform_from(src, srcBuf, dst, dstBuf, 0, junk)

(***************************************************************************)
(* The views reform_to is called on: a packed tensor, and the views the    *)
(* metadata operations of the tensor derive from one (section 4.1 of the   *)
(* specification): transposed, sliced along one axis, broadcast along one  *)
(* axis.  A view is a tensor with the byte length of the buffer it lives   *)
(* in (the buffer alloc gave the packed parent).                           *)
(***************************************************************************)
Reverse(s) == [k \in 1..Len(s) |-> s[Len(s) + 1 - k]]

transpose_reverse(t) ==
    [layout |-> t.layout,
     shape |-> Reverse(t.shape),
     pattern |-> Reverse(strides(t)) \o <<offset(t)>>]

slice_axis(t, axis, start, len) ==
    [layout |-> t.layout,
     shape |-> [t.shape EXCEPT ![axis] = len],
     pattern |-> [t.pattern EXCEPT ![rank(t) + 1] = @ + start * t.pattern[axis]]]

broadcast_axis(t, axis, n) ==
    [layout |-> t.layout,
     shape |-> [t.shape EXCEPT ![axis] = n],
     pattern |-> [t.pattern EXCEPT ![axis] = 0]]

View(t, parent) == [t |-> t, len |-> alloc_len(parent.layout, parent.shape)]

PackedViews(l, sh) == {View(alloc(l, sh), alloc(l, sh))}

TransposedViews(l, sh) ==
    {View(transpose_reverse(alloc(l, Reverse(sh))), alloc(l, Reverse(sh)))}

SlicedViews(l, sh) ==
    {View(slice_axis(alloc(l, [sh EXCEPT ![a] = @ + 1]), a, start, sh[a]),
          alloc(l, [sh EXCEPT ![a] = @ + 1])) :
        a \in 1..Len(sh), start \in 0..1}

BroadcastViews(l, sh) ==
    {View(broadcast_axis(alloc(l, [sh EXCEPT ![a] = 1]), a, sh[a]),
          alloc(l, [sh EXCEPT ![a] = 1])) :
        a \in 1..Len(sh)}

SourceViews(l, sh) ==
    PackedViews(l, sh) \cup TransposedViews(l, sh) \cup SlicedViews(l, sh)
        \cup BroadcastViews(l, sh)

DestinationViews(l, sh) ==
    PackedViews(l, sh) \cup TransposedViews(l, sh) \cup SlicedViews(l, sh)

\* buffer contents: the source holds distinct non-zero bytes, the destination zeros
SourceBytes(len) == [p \in 1..len |-> p]

ZeroBytes(len) == [p \in 1..len |-> 0]

JunkBytes == {-1, -2}

(***************************************************************************)
(* Specification SpecReform: one reform_to call.  The workers of the       *)
(* parallel for_each copy byte by byte, interleaved in any order; for_each *)
(* returns when all of them are done.                                      *)
(***************************************************************************)
ReformShapes == {sh \in SeqsUpTo(0..MaxDim, MaxRank) : Prod(sh) <= MaxSize}

ReformInit ==
    /\ LayoutIdle
    /\ SplitIdle
    /\ DecodeIdle
    /\ CacheIdle
    /\ LoadIdle
    /\ TokIdle
    /\ AliasIdle
    /\ \E sh \in ReformShapes, ls \in Layouts, ld \in Layouts :
        \E sv \in SourceViews(ls, sh), dv \in DestinationViews(ld, sh) :
            /\ rsrc = sv.t
            /\ rsrcBuf = SourceBytes(sv.len)
            /\ rdst = dv.t
            /\ rdstBuf = ZeroBytes(dv.len)
    /\ rjunk \in JunkBytes
    /\ rpc = "init"
    /\ rprog = <<>>

ReformPanic ==
    /\ rpc = "init"
    /\ ~Compatible(rsrc, rdst)
    /\ rpc' = "panic"
    /\ UNCHANGED <<rsrc, rdst, rsrcBuf, rdstBuf, rjunk, rprog>>

ReformStart ==
    /\ rpc = "init"
    /\ Compatible(rsrc, rdst)
    /\ rpc' = "running"
    /\ rprog' = [i \in 0..(reform_n(rsrc, rdst) - 1) |-> 0]
    /\ UNCHANGED <<rsrc, rdst, rsrcBuf, rdstBuf, rjunk>>

WorkerStep ==
    /\ rpc = "running"
    /\ \E i \in DOMAIN rprog :
        /\ rprog[i] < reform_count(rsrc, rdst)
        /\ rdstBuf' = write_byte(rdstBuf, worker_dst(rsrc, rdst, i) + rprog[i],
                        read_byte(rsrcBuf, worker_src(rsrc, rdst, i) + rprog[i], rjunk))
        /\ rprog' = [rprog EXCEPT ![i] = @ + 1]
    /\ UNCHANGED <<rsrc, rdst, rsrcBuf, rjunk, rpc>>

\* mutant: the call returns without waiting for its workers
ReformJoinEarly ==
    /\ rpc = "running"
    /\ rpc' = "done"
    /\ UNCHANGED <<rsrc, rdst, rsrcBuf, rdstBuf, rjunk, rprog>>

ReformJoin ==
    /\ rpc = "running"
    /\ \A i \in DOMAIN rprog : rprog[i] = reform_count(rsrc, rdst)
    /\ rpc' = "done"
    /\ UNCHANGED <<rsrc, rdst, rsrcBuf, rdstBuf, rjunk, rprog>>

ReformNext ==
    /\ ReformPanic \/ ReformStart \/ WorkerStep \/ ReformJoin
    /\ UNCHANGED <<layoutVars, splitVars, decodeVars, cacheVars, loadVars, tokVars, aliasVars>>

SpecReform == ReformInit /\ [][ReformNext]_vars

(***************************************************************************)
(* Claims on reform_to.                                                    *)
(***************************************************************************)
\* the byte position of byte b of the element a tensor maps idx to
ByteAt(t, idx, b) == ElementAt(t, idx) * nbytes(t.layout) + b

\* the tensor maps distinct index tuples to distinct elements
Injective(t) ==
    \A i1 \in Indices(t.shape), i2 \in Indices(t.shape) :
        i1 # i2 => ElementAt(t, i1) # ElementAt(t, i2)

\* C2 (as stated): for src and dst of equal shape and dtype, whatever their
\* stride layouts (transposed, sliced, zero-stride broadcast sources included),
\* after reform_to every element of dst equals the element of src at the same
\* index tuple.
C2_Original ==
    rpc = "done" =>
        \A idx \in Indices(rsrc.shape) : \A b \in 0..(nbytes(rsrc.layout) - 1) :
            read_byte(rdstBuf, ByteAt(rdst, idx, b), rjunk)
                = read_byte(rsrcBuf, ByteAt(rsrc, idx, b), rjunk)

\* the byte positions of the destination buffer worker i writes
WriteRange(i) ==
    {worker_dst(rsrc, rdst, i) + p : p \in 0..(reform_count(rsrc, rdst) - 1)}

\* C7: when the destination maps distinct indices to distinct elements, the
\* workers of reform_to write pairwise disjoint byte ranges of the destination;
\* the call returns only after every worker has copied its whole run, and the
\* destination then holds what the workers leave when run one after the other
\* in index order, whatever the interleaving was.
C7_Reform ==
    /\ (rpc \in {"running", "done"} /\ Injective(rdst)) =>
            \A i \in DOMAIN rprog, j \in DOMAIN rprog :
                i # j => WriteRange(i) \cap WriteRange(j) = {}
    /\ rpc = "done" =>
            /\ \A i \in DOMAIN rprog : rprog[i] = reform_count(rsrc, rdst)
            /\ rdstBuf = reform_to(rsrc, rsrcBuf, rdst, ZeroBytes(Len(rdstBuf)), rjunk)

\* C7 witness: a finished call with several workers, each copying a run of
\* several bytes into a strided destination.
C7_Witness ==
    /\ rpc = "done"
    /\ Cardinality(DOMAIN rprog) >= 2
    /\ reform_count(rsrc, rdst) >= 2
    /\ ~is_contiguous(rdst)
    /\ Injective(rdst)
    /\ \A i \in DOMAIN rprog : rprog[i] = reform_count(rsrc, rdst)

(***************************************************************************)
(* decode and sample (models/llama/cpu/src/lib.rs).  The hidden state has  *)
(* one row per token of the step; DecodingMeta::select keeps, per query,   *)
(* its last num_decode rows, moved to the front, and returns their range.  *)
(* What the kernels compute is not modelled: the logits hold one distinct  *)
(* value per element, and a drawn token records the sampling arguments and *)
(* the logits row it was drawn from.                                       *)
(***************************************************************************)
RECURSIVE select_rows(_, _)
select_rows(metas, base) ==
    IF metas = <<>> THEN <<>>
    ELSE LET m == Head(metas)
         IN  [k \in 1..m.num_decode |-> base + m.num_query - m.num_decode + k - 1]
                \o select_rows(Tail(metas), base + m.num_query)

\* the rows of the hidden state select keeps, in order; the range is 0..Len
select(metas) == select_rows(metas, 0)

decode(metas, cfg) ==
    LET range == select(metas)
    IN  IF Len(range) = 0
        THEN [state |-> "returned",
              shape |-> alloc("F16", <<0, cfg.d>>).shape,
              data |-> <<>>,
              rows |-> <<>>,
              normed |-> FALSE, headed |-> FALSE]
        ELSE [state |-> "returned",
              shape |-> alloc("F16", <<Len(range), cfg.nvoc>>).shape,
              data |-> [p \in 1..(Len(range) * cfg.nvoc) |-> p],
              rows |-> range,
              normed |-> TRUE, headed |-> TRUE]

\* args.random(row): the token drawn with args from one row of logits
random(args, row) == [args |-> args, row |-> row]

\* slice!(logits; voc; [i]): row i (0-based) of the logits
logits_row(data, voc, i) == SubSeq(data, i * voc + 1, (i + 1) * voc)

\* flat_map(|meta| repeat(meta.args).take(meta.num_decode))
RECURSIVE flat_args(_)
flat_args(metas) ==
    IF metas = <<>> THEN <<>>
    ELSE [k \in 1..Head(metas).num_decode |-> Head(metas).args]
            \o flat_args(Tail(metas))

\* mutant: each entry's arguments once, not num_decode times
RECURSIVE flat_args_once(_)
flat_args_once(metas) ==
    IF metas = <<>> THEN <<>>
    ELSE [k \in 1..Min(1, Head(metas).num_decode) |-> Head(metas).args]
            \o flat_args_once(Tail(metas))

sample_once(metas, logits) ==
    LET voc == logits.shape[2]
        flat == flat_args_once(metas)
    IN  [i \in 1..Len(flat) |-> random(flat[i], logits_row(logits.data, voc, i - 1))]

sample(metas, logits) ==
    LET voc == logits.shape[2]
        flat == flat_args(metas)
    IN  [i \in 1..Len(flat) |-> random(flat[i], logits_row(logits.data, voc, i - 1))]

(***************************************************************************)
(* Specification SpecDecode: one step's decode, then sample on the logits  *)
(* decode returned, with the same num_decode per query.                    *)
(***************************************************************************)
SampleArgs == {"greedy", "nucleus"}

StepMetas ==
    {m \in [num_query : 0..MaxQueryLen, num_decode : 0..MaxQueryLen, args : SampleArgs] :
        m.num_decode <= m.num_query}

DecodeInit ==
    /\ LayoutIdle
    /\ SplitIdle
    /\ ReformIdle
    /\ CacheIdle
    /\ LoadIdle
    /\ TokIdle
    /\ AliasIdle
    /\ dcfg \in [d : 1..MaxHidden, nvoc : 1..MaxVoc]
    /\ dmeta \in SeqsUpTo(StepMetas, MaxQueries)
    /\ dlogits = NoLogits
    /\ dtokens = NoTokens

Decode ==
    /\ dlogits.state = "none"
    /\ dlogits' = decode(dmeta, dcfg)
    /\ UNCHANGED <<dcfg, dmeta, dtokens>>

Sample ==
    /\ dlogits.state = "returned"
    /\ dtokens.state = "none"
    /\ dtokens' = [state |-> "returned", tokens |-> sample(dmeta, dlogits)]
    /\ UNCHANGED <<dcfg, dmeta, dlogits>>

DecodeNext ==
    /\ Decode \/ Sample
    /\ UNCHANGED <<layoutVars, splitVars, reformVars, cacheVars, loadVars, tokVars, aliasVars>>

SpecDecode == DecodeInit /\ [][DecodeNext]_vars

(***************************************************************************)
(* Claims on decode and sample.                                            *)
(***************************************************************************)
TotalDecode(metas) == Sum([j \in 1..Len(metas) |-> metas[j].num_decode])

\* C5 (as stated): when the metadata selects no rows, decode returns a tensor
\* of shape [0, nvoc] and runs neither the final RMS-norm nor the LM head.
C5_Original ==
    (dlogits.state = "returned" /\ TotalDecode(dmeta) = 0) =>
        /\ dlogits.shape = <<0, dcfg.nvoc>>
        /\ ~dlogits.normed
        /\ ~dlogits.headed

\* the entry that owns row i (1-based): entry j owns the num_decode[j] rows
\* that follow those of the entries before it
Owner(metas, i) ==
    CHOOSE j \in 1..Len(metas) :
        /\ TotalDecode(SubSeq(metas, 1, j - 1)) < i
        /\ i <= TotalDecode(SubSeq(metas, 1, j))

\* C6: on logits with sum(num_decode) rows, sample returns sum(num_decode)
\* tokens, the i-th drawn from logits row i with the sampling arguments of the
\* entry that owns row i.
C6_Sample ==
    (dtokens.state = "returned" /\ dlogits.shape[1] = TotalDecode(dmeta)) =>
        /\ Len(dtokens.tokens) = TotalDecode(dmeta)
        /\ \A i \in 1..TotalDecode(dmeta) :
            dtokens.tokens[i] =
                random(dmeta[Owner(dmeta, i)].args,
                       [c \in 1..dlogits.shape[2] |->
                            dlogits.data[(i - 1) * dlogits.shape[2] + c]])

\* C6 witness: two entries with different arguments, the first owning two
\* rows, the second one.
C6_Witness ==
    /\ dtokens.state = "returned"
    /\ Len(dmeta) = 2
    /\ dmeta[1].num_decode = 2
    /\ dmeta[2].num_decode = 1
    /\ dmeta[1].args # dmeta[2].args
    /\ Len(dtokens.tokens) = 3
    /\ dtokens.tokens[3].args = dmeta[2].args
    /\ dlogits.shape = <<3, 2>>

(***************************************************************************)
(* Specification SpecLayout: a tensor built by from_raw_parts over the     *)
(* shortest buffer that holds every element it addresses (the safety       *)
(* contract of from_raw_parts), then queried.                              *)
(***************************************************************************)
\* the largest element offset the tensor addresses, plus one
reach(t) ==
    IF size(t) = 0 THEN offset(t)
    ELSE offset(t) + Sum([k \in 1..rank(t) |-> (t.shape[k] - 1) * strides(t)[k]]) + 1

valid_len(t) == reach(t) * nbytes(t.layout)

RawShapes == SeqsUpTo(0..MaxDim, MaxRank)

LayoutInit ==
    /\ SplitIdle
    /\ ReformIdle
    /\ DecodeIdle
    /\ CacheIdle
    /\ LoadIdle
    /\ TokIdle
    /\ AliasIdle
    /\ \E l \in Layouts, sh \in RawShapes :
        \E st \in [1..Len(sh) -> 0..MaxStride], off \in 0..MaxOffset :
            lt = from_raw_parts(l, sh, st \o <<off>>)
    /\ lphys = valid_len(lt)
    /\ lclen = -1
    /\ lcontig = FALSE
    /\ lslice = NoSlice

CallContiguousLen ==
    /\ lclen = -1
    /\ lclen' = contiguous_len(lt)
    /\ lcontig' = is_contiguous(lt)
    /\ UNCHANGED <<lt, lphys, lslice>>

CallAsSlice ==
    /\ lslice.kind = "none"
    /\ \E debug \in BOOLEAN : lslice' = as_slice(lt, lphys, debug)
    /\ UNCHANGED <<lt, lphys, lclen, lcontig>>

CallAsMutSlice ==
    /\ lslice.kind = "none"
    /\ \E debug \in BOOLEAN : lslice' = as_mut_slice(lt, lphys, debug)
    /\ UNCHANGED <<lt, lphys, lclen, lcontig>>

LayoutNext ==
    /\ CallContiguousLen \/ CallAsSlice \/ CallAsMutSlice
    /\ UNCHANGED <<splitVars, reformVars, decodeVars, cacheVars, loadVars, tokVars, aliasVars>>

SpecLayout == LayoutInit /\ [][LayoutNext]_vars

(***************************************************************************)
(* Claims on the layout queries.                                           *)
(***************************************************************************)
\* dimension k counts as packed: its stride is 0 or the product of the
\* later dimensions
CountsAsPacked(t, k) ==
    \/ strides(t)[k] = 0
    \/ strides(t)[k] = Prod(SubSeq(t.shape, k + 1, rank(t)))

TrailingPacked(t) ==
    CHOOSE n \in 0..rank(t) :
        /\ \A k \in (rank(t) - n + 1)..rank(t) : CountsAsPacked(t, k)
        /\ n < rank(t) => ~CountsAsPacked(t, rank(t) - n)

\* dimension k is canonical in the sense of the specification:
\* s_{r-1} = 1 and s_k = s_{k+1} * d_{k+1}
Canonical(t, k) ==
    IF k = rank(t) THEN strides(t)[k] = 1
    ELSE strides(t)[k] = strides(t)[k + 1] * t.shape[k + 1]

TrailingCanonical(t) ==
    CHOOSE n \in 0..rank(t) :
        /\ \A k \in (rank(t) - n + 1)..rank(t) : Canonical(t, k)
        /\ n < rank(t) => ~Canonical(t, rank(t) - n)

\* C4 (as stated): contiguous_len is the number of trailing dimensions whose
\* strides form the canonical packed product s_{r-1} = 1, s_k = s_{k+1} * d_{k+1},
\* and is_contiguous holds exactly when that number is the rank.
C4_Original ==
    lclen # -1 =>
        /\ lclen = TrailingCanonical(lt)
        /\ lcontig <=> (TrailingCanonical(lt) = rank(lt))

\* C4 (amended): contiguous_len is the number of trailing dimensions, counted
\* from the last and stopping at the first that fails, whose stride is either 0
\* or the product of the sizes of all later dimensions; is_contiguous holds
\* exactly when every dimension passes.
C4_ContiguousLen ==
    lclen # -1 =>
        /\ lclen = TrailingPacked(lt)
        /\ lcontig <=> (\A k \in 1..rank(lt) : CountsAsPacked(lt, k))

\* C4 witness: a call on a broadcast layout (stride 0 over a dimension of 2)
\* where the zero stride is counted and the canonical count differs.
C4_Witness ==
    /\ lclen = 2
    /\ rank(lt) = 2
    /\ strides(lt) = <<0, 1>>
    /\ lt.shape = <<2, 2>>
    /\ lcontig
    /\ TrailingCanonical(lt) = 1

\* C8 (as stated): as_slice and as_mut_slice never return a byte slice of a
\* tensor that is not fully contiguous; they panic instead.
C8_Original ==
    lslice.kind = "slice" => is_contiguous(lt)

(***************************************************************************)
(* KV caches (llama/cpu lib.rs duplicate_cache, forward).  A cache is a    *)
(* tensor [nlayers, 2, nkvh, max_seq_len, dh] of the model's dtype over a  *)
(* buffer of its own; buffers are kept by id in cheap so that sharing a    *)
(* buffer and copying it are different states.  Config::new_cache,         *)
(* Config::duplicate_cache and ComputeStream::forward are not in src: they *)
(* follow sections 4.3 and 4.5 of the specification; the copy closure      *)
(* |dst, src| src.reform_to(dst) is the code's.                            *)
(***************************************************************************)
CacheDt == "F16"

CacheShape == <<CacheLayers, 2, CacheHeads, CacheSeq, CacheDh>>

\* config.new_cache(Blob::new): a zeroed buffer appended to the heap
new_cache(heap) ==
    [cache |-> [t |-> alloc(CacheDt, CacheShape), buf |-> Len(heap) + 1],
     heap |-> Append(heap, ZeroBytes(alloc_len(CacheDt, CacheShape)))]

\* the view [..., :pos, :] of a cache
cache_prefix(t, pos) == slice_axis(t, 4, 0, pos)

\* the view cache[layer, plane, :, pos:pos+len, :], of shape [nkvh, len, dh]
cache_slot(t, layer, plane, pos, len) ==
    LET v == slice_axis(slice_axis(slice_axis(t, 1, layer, 1), 2, plane, 1),
                        4, pos, len)
    IN  [layout |-> v.layout,
         shape |-> SubSeq(v.shape, 3, 5),
         pattern |-> SubSeq(v.pattern, 3, 6)]

\* duplicate_cache: a fresh cache, then reform_to from the source's prefix
\* view into the duplicate's prefix view
duplicate_cache(heap, cache, pos) ==
    LET made == new_cache(heap)
        dup  == made.cache
    IN  [cache |-> dup,
         heap |-> [made.heap EXCEPT ![dup.buf] =
                      reform_to(cache_prefix(cache.t, pos), heap[cache.buf],
                                cache_prefix(dup.t, pos), @, 0)]]

\* the keys (plane 0) or values (plane 1) of a query's len tokens: rows
\* [len, nkvh, dh] viewed as [nkvh, len, dh]
kv_rows(len) ==
    LET rows == alloc(CacheDt, <<len, CacheHeads, CacheDh>>)
    IN  [layout |-> rows.layout,
         shape |-> <<CacheHeads, len, CacheDh>>,
         pattern |-> <<rows.pattern[2], rows.pattern[1], rows.pattern[3],
                       rows.pattern[4]>>]

\* their bytes: never zero, and different for the two caches and planes
kv_bytes(name, plane, len) ==
    [p \in 1..alloc_len(CacheDt, <<len, CacheHeads, CacheDh>>) |->
        (IF name = "A" THEN 100 ELSE 200) + 50 * plane + p]

overflows(q, pos) == pos[q.cache] + q.len > CacheSeq

\* one layer's cache appends for queries i.. of the step, in order; a query
\* past max_seq_len stops the step with the appends made so far
RECURSIVE append_from(_, _, _, _, _, _)
append_from(heap, caches, pos, queries, i, layer) ==
    IF i > Len(queries) THEN [heap |-> heap, ok |-> TRUE]
    ELSE LET q == queries[i]
             c == caches[q.cache]
             k == reform_to(kv_rows(q.len), kv_bytes(q.cache, 0, q.len),
                            cache_slot(c.t, layer, 0, pos[q.cache], q.len),
                            heap[c.buf], 0)
             v == reform_to(kv_rows(q.len), kv_bytes(q.cache, 1, q.len),
                            cache_slot(c.t, layer, 1, pos[q.cache], q.len),
                            k, 0)
         IN  IF overflows(q, pos) THEN [heap |-> heap, ok |-> FALSE]
             ELSE append_from([heap EXCEPT ![c.buf] = v], caches, pos,
                              queries, i + 1, layer)

\* the steps a caller can ask for: one query per cache, in either order
StepQueries(names) ==
    {qs \in SeqsUpTo([cache : names, len : 1..CacheSeq], 2) :
        /\ qs # <<>>
        /\ \A i \in 1..Len(qs), j \in 1..Len(qs) :
              i # j => qs[i].cache # qs[j].cache}

CacheNames == IF cB = NoCache THEN {"A"} ELSE {"A", "B"}

Advance(pos, queries) ==
    [n \in {"A", "B"} |->
        pos[n] + Sum([i \in 1..Len(queries) |->
                        IF queries[i].cache = n THEN queries[i].len ELSE 0])]

Caches == [A |-> cA, B |-> cB]

\* after new_cache for the first query
CacheInit ==
    /\ LayoutIdle
    /\ SplitIdle
    /\ ReformIdle
    /\ DecodeIdle
    /\ LoadIdle
    /\ TokIdle
    /\ AliasIdle
    /\ cheap = new_cache(<<>>).heap
    /\ cA = new_cache(<<>>).cache
    /\ cB = NoCache
    /\ cpos = [A |-> 0, B |-> 0]
    /\ cdup = NoDup
    /\ fpc = "idle"
    /\ fqueries = <<>>
    /\ flayer = 0
    /\ fsnap = <<>>

\* mutant: the step starts without looking at the positions
ForwardBeginUnchecked ==
    /\ fpc # "layer"
    /\ \E qs \in StepQueries(CacheNames) :
          /\ fqueries' = qs
          /\ fpc' = "layer"
          /\ cdup' = IF cdup.state = "made" /\ \E i \in 1..Len(qs) : qs[i].cache = "A"
                     THEN [cdup EXCEPT !.srcWritten = TRUE] ELSE cdup
    /\ flayer' = 0
    /\ fsnap' = cheap
    /\ UNCHANGED <<cheap, cA, cB, cpos>>

\* forward, on entry: every query's pos + L is checked against max_seq_len
\* before the first layer
ForwardBegin ==
    /\ fpc # "layer"
    /\ \E qs \in StepQueries(CacheNames) :
          /\ fqueries' = qs
          /\ IF \E i \in 1..Len(qs) : overflows(qs[i], cpos)
             THEN fpc' = "PositionOverflow" /\ cdup' = cdup
             ELSE /\ fpc' = "layer"
                  /\ cdup' = IF cdup.state = "made"
                                /\ \E i \in 1..Len(qs) : qs[i].cache = "A"
                             THEN [cdup EXCEPT !.srcWritten = TRUE] ELSE cdup
    /\ flayer' = 0
    /\ fsnap' = cheap
    /\ UNCHANGED <<cheap, cA, cB, cpos>>

\* forward, one layer: the keys and values of every query are appended to its
\* cache at [pos, pos + L)
ForwardLayer ==
    /\ fpc = "layer"
    /\ flayer < CacheLayers
    /\ LET r == append_from(cheap, Caches, cpos, fqueries, 1, flayer)
       IN  /\ cheap' = r.heap
           /\ fpc' = IF r.ok THEN "layer" ELSE "PositionOverflow"
           /\ flayer' = IF r.ok THEN flayer + 1 ELSE flayer
    /\ UNCHANGED <<cA, cB, cpos, cdup, fqueries, fsnap>>

\* forward returns; the callers advance their position counters
ForwardEnd ==
    /\ fpc = "layer"
    /\ flayer = CacheLayers
    /\ fpc' = "idle"
    /\ cpos' = Advance(cpos, fqueries)
    /\ fqueries' = <<>>
    /\ flayer' = 0
    /\ fsnap' = <<>>
    /\ UNCHANGED <<cheap, cA, cB, cdup>>

\* duplicate_cache(&cA, pos), between steps; the duplicate's owner starts at pos
DuplicateCache ==
    /\ fpc # "layer"
    /\ cB = NoCache
    /\ \E pos \in 0..CacheSeq :
          LET r == duplicate_cache(cheap, cA, pos)
          IN  /\ cheap' = r.heap
              /\ cB' = r.cache
              /\ cpos' = [cpos EXCEPT !.B = pos]
              /\ cdup' = [state |-> "made", pos |-> pos, snap |-> cheap,
                          srcWritten |-> FALSE]
    /\ fpc' = "idle"
    /\ fqueries' = <<>>
    /\ fsnap' = <<>>
    /\ UNCHANGED <<cA, flayer>>

CacheNext ==
    /\ \/ ForwardBegin
       \/ ForwardLayer
       \/ ForwardEnd
       \/ DuplicateCache
    /\ UNCHANGED <<layoutVars, splitVars, reformVars, decodeVars, loadVars, tokVars, aliasVars>>

SpecCache == CacheInit /\ [][CacheNext]_vars

\* the bytes of the element of cache tensor t at index tuple idx in buf
ElementBytes(buf, t, idx) ==
    [b \in 0..(nbytes(t.layout) - 1) |-> buf[ByteAt(t, idx, b) + 1]]

C10_Duplicate ==
    cdup.state = "made" =>
        /\ cB.buf # cA.buf
        /\ cB.buf > Len(cdup.snap)
        /\ \A idx \in Indices(cache_prefix(cA.t, cdup.pos).shape) :
              ElementBytes(cheap[cB.buf], cB.t, idx)
                  = ElementBytes(cdup.snap[cA.buf], cA.t, idx)
        /\ ~cdup.srcWritten => cheap[cA.buf] = cdup.snap[cA.buf]

\* a duplicate of a filled prefix whose owner has since appended to it
C10_Witness ==
    /\ cdup.state = "made"
    /\ cdup.pos >= 1
    /\ cdup.snap[cA.buf] # ZeroBytes(Len(cdup.snap[cA.buf]))
    /\ cpos.B > cdup.pos
    /\ fpc = "idle"
    /\ ~cdup.srcWritten

(***************************************************************************)
(* mixtral/common config.rs: ConfigJson::load reads config.json and parses *)
(* it with serde; data_layout maps torch_dtype to a digit layout.          *)
(***************************************************************************)
Fields == {"bos_token_id", "eos_token_id", "hidden_size", "intermediate_size",
           "max_position_embeddings", "num_attention_heads",
           "num_hidden_layers", "num_key_value_heads", "vocab_size",
           "rms_norm_eps", "rope_theta", "torch_dtype", "num_local_experts",
           "num_experts_per_tok"}

\* the fields with #[serde(default = ...)]
DefaultedFields == {"rms_norm_eps", "rope_theta"}

Dtypes == {"float16", "float32", "bfloat16", "float64", "int8"}

SupportedDtypes == {"float16", "float32", "bfloat16"}

\* ConfigJson::load: Io when the file cannot be read, Json when serde rejects
\* it (not JSON, or a field without default is absent), else the config
load(file) ==
    IF file.kind = "unreadable" THEN [state |-> "Io", config |-> <<>>]
    ELSE IF file.kind = "malformed" \/ ~((Fields \ DefaultedFields) \subseteq file.present)
    THEN [state |-> "Json", config |-> <<>>]
    ELSE [state |-> "Ok",
          config |-> [torch_dtype |-> file.torch_dtype,
                      defaulted |-> DefaultedFields \ file.present]]

\* data_layout: the match on torch_dtype; its last arm is todo!(), a panic
data_layout(config) ==
    CASE config.torch_dtype = "float16" -> "F16"
      [] config.torch_dtype = "float32" -> "F32"
      [] config.torch_dtype = "bfloat16" -> "BF16"
      [] OTHER -> "panic"

ConfigFiles ==
    {[kind |-> "unreadable", present |-> {}, torch_dtype |-> ""],
     [kind |-> "malformed", present |-> {}, torch_dtype |-> ""]}
    \cup {[kind |-> "json", present |-> Fields \ missing, torch_dtype |-> dt] :
            missing \in {m \in SUBSET Fields : Cardinality(m) <= MaxMissing},
            dt \in Dtypes}

LoadInit ==
    /\ LayoutIdle
    /\ SplitIdle
    /\ ReformIdle
    /\ DecodeIdle
    /\ CacheIdle
    /\ TokIdle
    /\ AliasIdle
    /\ jfile \in ConfigFiles
    /\ jres = NoConfig
    /\ jlayout = "none"

Load ==
    /\ jres.state = "none"
    /\ jres' = load(jfile)
    /\ UNCHANGED <<jfile, jlayout>>

DataLayout ==
    /\ jres.state = "Ok"
    /\ jlayout = "none"
    /\ jlayout' = data_layout(jres.config)
    /\ UNCHANGED <<jfile, jres>>

LoadNext ==
    /\ \/ Load
       \/ DataLayout
    /\ UNCHANGED <<layoutVars, splitVars, reformVars, decodeVars, cacheVars, tokVars, aliasVars>>

SpecLoad == LoadInit /\ [][LoadNext]_vars

\* C11 (as stated): an unreadable config.json yields Io, an unparsable one
\* yields Json, a torch_dtype outside float16, float32, bfloat16 yields
\* UnsupportedDtype to the caller of load, and nothing aborts the program.
C11_Original ==
    /\ jres.state # "none" =>
          /\ jfile.kind = "unreadable" => jres.state = "Io"
          /\ jfile.kind = "malformed" => jres.state = "Json"
          /\ (jfile.kind = "json" /\ Fields \subseteq jfile.present
              /\ jfile.torch_dtype \notin SupportedDtypes)
                => jres.state = "UnsupportedDtype"
    /\ jlayout # "panic"

(***************************************************************************)
(* tokenizer lib.rs: as_byte_token and decode_with_ascii.  A piece is a    *)
(* sequence of bytes, a byte is its value 0..255.                          *)
(***************************************************************************)
\* the byte literals of the source
ascii == [lt |-> 60, gt |-> 62, x |-> 120, d0 |-> 48, d9 |-> 57,
          la |-> 97, lf |-> 102, ua |-> 65, uf |-> 70]

\* u8::is_ascii_hexdigit: '0'..='9' | 'A'..='F' | 'a'..='f'
is_ascii_hexdigit(c) ==
    \/ ascii.d0 <= c /\ c <= ascii.d9
    \/ ascii.ua <= c /\ c <= ascii.uf
    \/ ascii.la <= c /\ c <= ascii.lf

\* mutant: the upper-case arm without its + 10
to_num_upper(c) ==
    CASE ascii.d0 <= c /\ c <= ascii.d9 -> c - ascii.d0
      [] ascii.la <= c /\ c <= ascii.lf -> c - ascii.la + 10
      [] ascii.ua <= c /\ c <= ascii.uf -> c - ascii.ua
      [] OTHER -> -1

\* to_num; -1 stands for the unreachable!() arm
to_num(c) ==
    CASE ascii.d0 <= c /\ c <= ascii.d9 -> c - ascii.d0
      [] ascii.la <= c /\ c <= ascii.lf -> c - ascii.la + 10
      [] ascii.ua <= c /\ c <= ascii.uf -> c - ascii.ua + 10
      [] OTHER -> -1

\* as_byte_token: Some(byte) for [b'<', b'0', b'x', a, b, b'>'] with a and b
\* hexadecimal digits, None otherwise; the arithmetic is u8
as_byte_token(piece) ==
    IF /\ Len(piece) = 6
       /\ piece[1] = ascii.lt /\ piece[2] = ascii.d0 /\ piece[3] = ascii.x
       /\ piece[6] = ascii.gt
       /\ is_ascii_hexdigit(piece[4]) /\ is_ascii_hexdigit(piece[5])
    THEN IF to_num(piece[4]) < 0 \/ to_num(piece[5]) < 0
         THEN [kind |-> "panic", b |-> 0]
         ELSE [kind |-> "Some",
               b |-> (to_num(piece[4]) * 16 + to_num(piece[5])) % 256]
    ELSE [kind |-> "None", b |-> 0]

\* the table BYTES: ans[i] = i as u8 for i in 0..256
BYTES == [i \in 1..256 |-> (i - 1) % 256]

\* decode_with_ascii: the one-byte str at BYTES[b] for a byte token, else the
\* piece itself
decode_with_ascii(piece) ==
    LET r == as_byte_token(piece)
    IN  CASE r.kind = "Some" -> [state |-> "done", str |-> <<BYTES[r.b + 1]>>]
          [] r.kind = "None" -> [state |-> "done", str |-> piece]
          [] OTHER -> [state |-> "panic", str |-> <<>>]

\* bytes tried at the two digit places: the ends of the three digit ranges
\* and their neighbours
DigitProbes == {47, 48, 57, 58, 64, 65, 70, 71, 96, 97, 102, 103}

\* pieces of the shape c1 c2 c3 a b c6 >..., cut or padded to len bytes
Pieces ==
    {SubSeq(<<c1, c2, c3, a, b, c6>> \o [i \in 1..MaxPieceLen |-> ascii.gt], 1, len) :
        c1 \in {ascii.lt, ascii.gt}, c2 \in {ascii.d0, ascii.d9},
        c3 \in {ascii.x, 88}, a \in DigitProbes, b \in DigitProbes,
        c6 \in {ascii.gt, ascii.lt}, len \in 0..MaxPieceLen}

TokInit ==
    /\ LayoutIdle
    /\ SplitIdle
    /\ ReformIdle
    /\ DecodeIdle
    /\ CacheIdle
    /\ LoadIdle
    /\ AliasIdle
    /\ tpiece \in Pieces
    /\ tout = NoStr

DecodeWithAscii ==
    /\ tout.state = "none"
    /\ tout' = decode_with_ascii(tpiece)
    /\ UNCHANGED tpiece

TokNext ==
    /\ DecodeWithAscii
    /\ UNCHANGED <<layoutVars, splitVars, reformVars, decodeVars, cacheVars, loadVars, aliasVars>>

SpecTok == TokInit /\ [][TokNext]_vars

\* the sixteen hexadecimal digits in value order, upper and lower case
UpperHex == <<48, 49, 50, 51, 52, 53, 54, 55, 56, 57, 65, 66, 67, 68, 69, 70>>

LowerHex == <<48, 49, 50, 51, 52, 53, 54, 55, 56, 57, 97, 98, 99, 100, 101, 102>>

IsHex(c) == \E v \in 1..16 : UpperHex[v] = c \/ LowerHex[v] = c

HexVal(c) == CHOOSE v \in 0..15 : UpperHex[v + 1] = c \/ LowerHex[v + 1] = c

\* the piece is exactly "<0x", two hexadecimal digits, ">"
IsByteToken(piece) ==
    /\ Len(piece) = 6
    /\ SubSeq(piece, 1, 3) = <<60, 48, 120>>
    /\ IsHex(piece[4]) /\ IsHex(piece[5])
    /\ piece[6] = 62

\* C12: decode_with_ascii returns the one-byte string of value 16*hi + lo when
\* the piece is exactly "<0x", two hexadecimal digits hi and lo of either
\* case, ">", and the piece unchanged otherwise.
C12_DecodeWithAscii ==
    tout.state # "none" =>
        /\ tout.state = "done"
        /\ tout.str = IF IsByteToken(tpiece)
                      THEN <<16 * HexVal(tpiece[4]) + HexVal(tpiece[5])>>
                      ELSE tpiece

\* a byte token with an upper-case and a lower-case digit has been decoded
C12_Witness ==
    /\ tout.state = "done"
    /\ IsByteToken(tpiece)
    /\ tpiece[4] = 70
    /\ tpiece[5] = 97
    /\ tout.str = <<250>>

(***************************************************************************)
(* split.rs LocalSplitable and tensor.rs physical_mut, base_mut,           *)
(* as_mut_slice: what the views of one split can write.  The views share   *)
(* one buffer through Rc (Splitable::split clones the Rc).                 *)
(***************************************************************************)
\* LocalSplitable::deref_mut: from_raw_parts_mut(data, len) over the whole
\* buffer, whichever view asks; the byte positions of the slice
deref_mut(buf) == 0..(Len(buf) - 1)

\* the byte positions of as_mut_slice: physical[off..][..len] of deref_mut
as_mut_slice_range(t, buf, debug) ==
    LET r == as_mut_slice(t, Len(buf), debug)
    IN  IF r.kind = "slice" THEN r.off..(r.off + r.len - 1) ELSE {}

\* the byte positions a kernel writes from base_mut with the view's strides
base_mut_range(t) ==
    {ByteAt(t, idx, b) : idx \in Indices(t.shape), b \in 0..(nbytes(t.layout) - 1)}

AliasInit ==
    /\ LayoutIdle
    /\ SplitIdle
    /\ ReformIdle
    /\ DecodeIdle
    /\ CacheIdle
    /\ LoadIdle
    /\ TokIdle
    /\ \E l \in Layouts, sh \in SplitShapes :
        /\ asrc = alloc(l, sh)
        /\ abuf = SourceBytes(alloc_len(l, sh))
    /\ aviews = <<>>
    /\ awrite = NoWrite
    /\ asnap = <<>>

\* one split call over the shared buffer
AliasSplit ==
    /\ aviews = <<>>
    /\ awrite.state = "none"
    /\ \E axis \in 0..MaxRank, segments \in SegmentLists :
        /\ segments # <<>>
        /\ build_asserts(axis, segments, asrc.shape)
        /\ aviews' = split(asrc, axis, segments)
    /\ UNCHANGED <<asrc, abuf, awrite, asnap>>

\* view k writes one byte of the slice its physical_mut() dereferences to
PhysicalMutWrite ==
    /\ awrite.state = "none"
    /\ \E k \in 1..Len(aviews) : \E p \in deref_mut(abuf) :
        /\ abuf' = write_byte(abuf, p, 0)
        /\ awrite' = [state |-> "written", view |-> k, via |-> "physical_mut", pos |-> p]
    /\ asnap' = abuf
    /\ UNCHANGED <<asrc, aviews>>

\* view k writes one byte of its as_mut_slice(), in a build with or without
\* debug assertions
AsMutSliceWrite ==
    /\ awrite.state = "none"
    /\ \E k \in 1..Len(aviews), debug \in BOOLEAN :
        \E p \in as_mut_slice_range(aviews[k], abuf, debug) :
            /\ abuf' = write_byte(abuf, p, 0)
            /\ awrite' = [state |-> "written", view |-> k, via |-> "as_mut_slice", pos |-> p]
    /\ asnap' = abuf
    /\ UNCHANGED <<asrc, aviews>>

\* view k writes one byte of one of its elements from base_mut()
BaseMutWrite ==
    /\ awrite.state = "none"
    /\ \E k \in 1..Len(aviews) : \E p \in base_mut_range(aviews[k]) :
        /\ abuf' = write_byte(abuf, p, 0)
        /\ awrite' = [state |-> "written", view |-> k, via |-> "base_mut", pos |-> p]
    /\ asnap' = abuf
    /\ UNCHANGED <<asrc, aviews>>

AliasNext ==
    /\ \/ AliasSplit
       \/ PhysicalMutWrite
       \/ AsMutSliceWrite
       \/ BaseMutWrite
    /\ UNCHANGED <<layoutVars, splitVars, reformVars, decodeVars, cacheVars, loadVars, tokVars>>

SpecAlias == AliasInit /\ [][AliasNext]_vars

\* what view t reads: the bytes of its elements, by index tuple
ViewContents(t, buf) ==
    [idx \in Indices(t.shape) |->
        [b \in 0..(nbytes(t.layout) - 1) |-> read_byte(buf, ByteAt(t, idx, b), 0)]]

\* C13 (as stated): the views of one split of a source that maps distinct
\* indices to distinct elements do not alias mutably: a write through the
\* mutable access of one view never changes what another view reads.
C13_Original ==
    awrite.state = "written" =>
        \A j \in 1..Len(aviews) :
            j # awrite.view =>
                ViewContents(aviews[j], abuf) = ViewContents(aviews[j], asnap)

(***************************************************************************)
(* The frame of reform_to (tensor.rs 227-252): the source and the          *)
(* destination are tensors over different buffers, the destination any     *)
(* view a caller can build, a broadcast of a slice included.               *)
(***************************************************************************)
\* a one-long slice of axis a, broadcast back to the shape; the buffer is the
\* unsliced tensor's
BroadcastSliceViews(l, sh) ==
    {View(broadcast_axis(slice_axis(alloc(l, sh), a, 0, 1), a, sh[a]), alloc(l, sh)) :
        a \in {a \in 1..Len(sh) : sh[a] >= 1}}

FrameInit ==
    /\ LayoutIdle
    /\ SplitIdle
    /\ DecodeIdle
    /\ CacheIdle
    /\ LoadIdle
    /\ TokIdle
    /\ AliasIdle
    /\ \E sh \in ReformShapes, ls \in Layouts, ld \in Layouts :
        \E sv \in SourceViews(ls, sh),
           dv \in DestinationViews(ld, sh) \cup BroadcastSliceViews(ld, sh) :
            /\ rsrc = sv.t
            /\ rsrcBuf = SourceBytes(sv.len)
            /\ rdst = dv.t
            /\ rdstBuf = ZeroBytes(dv.len)
    /\ rjunk \in JunkBytes
    /\ rpc = "init"
    /\ rprog = <<>>

SpecFrame == FrameInit /\ [][ReformNext]_vars

\* the byte positions of its buffer a view addresses by its index tuples
AddressedBytes(t) ==
    {ByteAt(t, idx, b) : idx \in Indices(t.shape), b \in 0..(nbytes(t.layout) - 1)}

\* C14 (as stated): for src and dst over different buffers, reform_to leaves
\* every byte of src's buffer as it was, and leaves as it was (zero) every byte
\* of dst's buffer that no index tuple of the dst view addresses.
C14_Original ==
    /\ rsrcBuf = SourceBytes(Len(rsrcBuf))
    /\ \A p \in 0..(Len(rdstBuf) - 1) :
          p \notin AddressedBytes(rdst) => rdstBuf[p + 1] = 0

=============================================================================
